---- MODULE Spec2Model ----
(***************************************************************************)
(* Density and SSA derivation of snowmicropyn (density_ssa.py): the        *)
(* regression calc_step, the orchestration calc and the multi-profile      *)
(* aggregation median_profile.                                             *)
(*                                                                         *)
(* Numbers.  A floating point value is a record [k, v]: k = "fin" with an  *)
(* integer v in a fixed-point unit, k = "inf" with v = 1 or -1, or         *)
(* k = "nan".  The arithmetic follows IEEE 754 as numpy applies it: not-a- *)
(* number absorbs, inf - inf and 0 * inf are not-a-number, x / 0 is an     *)
(* infinity or not-a-number, log(0) is -inf and log of a negative number   *)
(* is not-a-number; none of these raises.                                  *)
(*                                                                         *)
(* Units.  force and element length: 1e-1;  log: 1e-2;  density            *)
(* coefficients: 1e-2;  ssa coefficients: 1e-4;  density: 1e-5;            *)
(* ssa of the 'ssa' family and lc: 1e-6;  ssa of the 'l_ex' family: 1e-2;  *)
(* window and depths: 1e-1 mm;  overlap: percent;  final resolution and    *)
(* output distance: 1e-3 mm.                                               *)
(***************************************************************************)
EXTENDS Integers, Sequences, FiniteSets, TLC

VARIABLES pc, call, samples, est, err, warned, result, ndensity

vars == <<pc, call, samples, est, err, warned, result, ndensity>>

(* ------------------------------------------------------------------ *)
(* Floating point values                                               *)
(* ------------------------------------------------------------------ *)
NaN == [k |-> "nan", v |-> 0]
PInf == [k |-> "inf", v |-> 1]
NInf == [k |-> "inf", v |-> -1]
Fin(x) == [k |-> "fin", v |-> x]

IsNaN(a) == a.k = "nan"
IsFinite(a) == a.k = "fin"

Sign(x) == IF x > 0 THEN 1 ELSE IF x < 0 THEN -1 ELSE 0

Abs(x) == IF x < 0 THEN -x ELSE x

\* int(a / b) of Python: the quotient truncated toward zero (b # 0)
TruncDiv(a, b) == Sign(a) * Sign(b) * (Abs(a) \div Abs(b))

Add(a, b) ==
    IF IsNaN(a) \/ IsNaN(b) THEN NaN
    ELSE IF a.k = "inf" /\ b.k = "inf" THEN (IF a.v = b.v THEN a ELSE NaN)
    ELSE IF a.k = "inf" THEN a
    ELSE IF b.k = "inf" THEN b
    ELSE Fin(a.v + b.v)

Sub(a, b) == Add(a, IF IsNaN(b) THEN NaN ELSE [k |-> b.k, v |-> -b.v])

Mul(a, b) ==
    IF IsNaN(a) \/ IsNaN(b) THEN NaN
    ELSE IF a.k = "inf" \/ b.k = "inf"
         THEN (IF a.v = 0 \/ b.v = 0 THEN NaN
               ELSE (IF Sign(a.v) * Sign(b.v) > 0 THEN PInf ELSE NInf))
    ELSE Fin(a.v * b.v)

\* a / b of numpy floats; never raises
Div(a, b) ==
    IF IsNaN(a) \/ IsNaN(b) THEN NaN
    ELSE IF a.k = "inf" /\ b.k = "inf" THEN NaN
    ELSE IF a.k = "inf"
         THEN (IF Sign(a.v) * (IF b.v < 0 THEN -1 ELSE 1) > 0 THEN PInf ELSE NInf)
    ELSE IF b.k = "inf" THEN Fin(0)
    ELSE IF b.v = 0
         THEN (IF a.v = 0 THEN NaN ELSE IF a.v > 0 THEN PInf ELSE NInf)
    ELSE Fin(TruncDiv(a.v, b.v))

\* floor(a * b / 1e8) for 0 <= a, b < 2e8, without leaving 32 bits
MulS(a, b) ==
    LET ah == a \div 10000
        al == a % 10000
        bh == b \div 10000
        bl == b % 10000
    IN  ah * bh + ((ah * bl + al * bh) + (al * bl) \div 10000) \div 10000

\* floor(1e8 * a / b) for 0 <= a < b
DivS(a, b) ==
    ((a * 10000) \div b) * 10000 + (((a * 10000) % b) * 10000) \div b

RECURSIVE LnSeries(_, _, _)
\* z + z^3/3 + z^5/5 + ... , t the current power of z, all in units of 1e-8
LnSeries(t, z2, n) ==
    IF n > 19 THEN 0 ELSE (t \div n) + LnSeries(MulS(t, z2), z2, n + 2)

RECURSIVE LnRatio(_, _)
\* ln(num / den) in units of 1e-8: the ratio is brought into [1, 2) by
\* powers of 2 and ln(m) = 2 * artanh((m - 1) / (m + 1))
LnRatio(num, den) ==
    IF num >= 2 * den THEN 69314718 + LnRatio(num, 2 * den)
    ELSE IF num < den THEN LnRatio(2 * num, den) - 69314718
    ELSE LET z == DivS(num - den, num + den)
         IN  2 * LnSeries(z, MulS(z, z), 1)

\* 100 * ln(x / 10) rounded to the nearest integer, x > 0 in units of 1e-1
\* (equal to the rounded value of np.log for every x up to 58546)
Ln(x) == (LnRatio(x, 10) + 500000) \div 1000000

\* np.log
Log(a) ==
    IF IsNaN(a) THEN NaN
    ELSE IF a.k = "inf" THEN (IF a.v > 0 THEN PInf ELSE NaN)
    ELSE IF a.v < 0 THEN NaN
    ELSE IF a.v = 0 THEN NInf
    ELSE Fin(Ln(a.v))

(* ------------------------------------------------------------------ *)
(* Coefficient sets                                                    *)
(* ------------------------------------------------------------------ *)
DENSITY_ICE == 917

FinSeq(s) == [i \in DOMAIN s |-> Fin(s[i])]

P2015 ==
    [density |-> FinSeq(<<42047, 10247, -12115, -16996>>),
     ssa |-> FinSeq(<<1310, 3550, 291>>), equation |-> "l_ex"]

C2020 ==
    [density |-> FinSeq(<<29580, 6510, -4320, 4710>>),
     ssa |-> FinSeq(<<5700, -185600, -36600>>), equation |-> "ssa"]

\* mutation of K2020a: measured SSA coefficients in place of np.nan
K2020aWithSsa ==
    [density |-> FinSeq(<<31561, 4694, -4394, -8815>>),
     ssa |-> FinSeq(<<5700, -185600, -36600>>), equation |-> "ssa"]

K2020a ==
    [density |-> FinSeq(<<31561, 4694, -4394, -8815>>),
     ssa |-> <<NaN, NaN, NaN>>, equation |-> "ssa"]

K2020b ==
    [density |-> FinSeq(<<31254, 5027, -5026, -8535>>),
     ssa |-> <<NaN, NaN, NaN>>, equation |-> "ssa"]

\* coeff_model values: None, a string, or a mapping (custom bundle)
None == [kind |-> "none", name |-> "", bundle |-> <<>>]
Name(s) == [kind |-> "name", name |-> s, bundle |-> <<>>]
Bundle(b) == [kind |-> "bundle", name |-> "", bundle |-> b]

\* the if/elif chain of calc_step: the coefficients in use
SelectCoeffs(coeff_model) ==
    IF coeff_model.kind = "none" THEN Bundle(P2015)
    ELSE IF coeff_model.kind = "name" /\ coeff_model.name = "P2015" THEN Bundle(P2015)
    ELSE IF coeff_model.kind = "name" /\ coeff_model.name = "C2020" THEN Bundle(C2020)
    ELSE IF coeff_model.kind = "name" /\ coeff_model.name = "K2020a" THEN Bundle(K2020a)
    ELSE IF coeff_model.kind = "name" /\ coeff_model.name = "K2020b" THEN Bundle(K2020b)
    ELSE coeff_model

\* d0 + d1*log(fm) + d2*log(fm)*l + d3*l, in units of 1e-5
DensityFormula(d, fm, l) ==
    Add(Add(Add(Mul(d[1], Fin(1000)),
                Mul(Mul(d[2], Log(fm)), Fin(10))),
            Mul(Mul(d[3], Log(fm)), l)),
        Mul(Mul(d[4], l), Fin(100)))

\* s0 + s1*log(l) + s2*log(fm), in units of 1e-6
SsaDirect(s, fm, l) ==
    Add(Add(Mul(s[1], Fin(100)), Mul(s[2], Log(l))), Mul(s[3], Log(fm)))

\* lc = s0 + s1*l + s2*log(fm), in units of 1e-6
CorrelationLength(s, fm, l) ==
    Add(Add(Mul(s[1], Fin(100)), Mul(Mul(s[2], l), Fin(10))), Mul(s[3], Log(fm)))

\* 4 * (1 - density / DENSITY_ICE) / lc, in units of 1e-2
SsaViaLc(density, lc) ==
    Div(Mul(Mul(Fin(4), Sub(Fin(100000), Div(density, Fin(DENSITY_ICE)))), Fin(1000)), lc)

StepResult(e, w, d, s, n) ==
    [err |-> e, warned |-> w, density |-> d, ssa |-> s, ndensity |-> n]

\* mutation of UnknownFamily: the unrecognized tag is rejected
UnknownFamilyRaises(density) == StepResult("ValueError", FALSE, density, NaN, 1)

\* the else branch of the equation dispatch: warnings.warn and ssa = np.nan
UnknownFamily(density) == StepResult("none", TRUE, density, NaN, 1)

\* calc_step: err is the exception raised ("none" when it returns), ndensity
\* counts the densities computed before the return or the exception
CalcStep(median_force, element_size, coeff_model) ==
    LET l == element_size
        fm == median_force
        sel == SelectCoeffs(coeff_model)
        coeffs == sel.bundle
    IN  IF sel.kind = "name"
        THEN StepResult("TypeError", FALSE, NaN, NaN, 0)
        ELSE IF "density" \notin DOMAIN coeffs
        THEN StepResult("KeyError", FALSE, NaN, NaN, 0)
        ELSE LET density == DensityFormula(coeffs.density, fm, l)
             IN  IF "equation" \notin DOMAIN coeffs
                 THEN StepResult("KeyError", FALSE, density, NaN, 1)
                 ELSE IF coeffs.equation = "ssa"
                 THEN (IF "ssa" \notin DOMAIN coeffs
                       THEN StepResult("KeyError", FALSE, density, NaN, 1)
                       ELSE StepResult("none", FALSE, density,
                                       SsaDirect(coeffs.ssa, fm, l), 1))
                 ELSE IF coeffs.equation = "l_ex"
                 THEN (IF "ssa" \notin DOMAIN coeffs
                       THEN StepResult("KeyError", FALSE, density, NaN, 1)
                       ELSE StepResult("none", FALSE, density,
                                       SsaViaLc(density,
                                                CorrelationLength(coeffs.ssa, fm, l)), 1))
                 ELSE UnknownFamily(density)

(* ------------------------------------------------------------------ *)
(* Collaborators outside density_ssa.py                                *)
(* ------------------------------------------------------------------ *)
DEFAULT_WINDOW == 25
DEFAULT_WINDOW_OVERLAP == 50

\* profile file names, as character sequences
ProfileA == <<"a", ".", "p", "n", "t">>
ProfileB == <<"b", ".", "p", "n", "t">>
ProfileC == <<"c", ".", "P", "N", "T">>

\* position of a profile in the per-profile tables below
ProfileIndex(p) == IF p = ProfileA THEN 1 ELSE IF p = ProfileB THEN 2 ELSE 3

\* Profile(p).detect_surface() and Profile(p).detect_ground()
DetectSurface(p) == <<5, 10, 0>>[ProfileIndex(p)]
DetectGround(p) == <<35, 30, 40>>[ProfileIndex(p)]

\* Profile(p).samples.distance.diff().iloc[-1]
DepthStep(p) == <<1, 1, 2>>[ProfileIndex(p)]

\* loewe2012.calc on the cropped samples of profile p: nwindows rows
ProfileEstimate(p, nwindows) ==
    [i \in 1..nwindows |->
        [force_median |-> Fin(<<10, 12, 14>>[ProfileIndex(p)] + 2 * (i - 1)),
         L2012_L |-> Fin(<<2, 4, 6>>[ProfileIndex(p)] + 2 * (i - 1))]]

\* loewe2012.calc on a sample series: one row per window, the statistics
\* being the estimator's (rows), placed at the windows' spacing
SeriesEstimate(rows, window, overlap) ==
    [i \in DOMAIN rows |->
        [distance |-> Fin((i - 1) * (100 * window - window * overlap)),
         force_median |-> rows[i].force_median,
         L2012_L |-> rows[i].L2012_L]]

(* ------------------------------------------------------------------ *)
(* pandas operations                                                   *)
(* ------------------------------------------------------------------ *)
\* samples.loc[samples['force'] < 0, 'force'] = np.nan
MaskNegative(force) ==
    [i \in DOMAIN force |->
        IF ~IsNaN(force[i]) /\ force[i].v < 0 THEN NaN ELSE force[i]]

\* Series.interpolate(method='linear'): forward only; a gap before the
\* first valid value stays, a gap after the last valid value repeats it
Interpolate(force) ==
    [i \in DOMAIN force |->
        IF ~IsNaN(force[i]) THEN force[i]
        ELSE LET before == {j \in 1..(i - 1) : ~IsNaN(force[j])}
                 after == {j \in (i + 1)..Len(force) : ~IsNaN(force[j])}
             IN  IF before = {} THEN NaN
                 ELSE LET p == CHOOSE j \in before : \A m \in before : m <= j
                      IN  IF after = {} THEN force[p]
                          ELSE LET n == CHOOSE j \in after : \A m \in after : j <= m
                               IN  Fin(force[p].v
                                       + TruncDiv((force[n].v - force[p].v) * (i - p),
                                                  n - p))]

\* str.endswith
EndsWith(s, suffix) ==
    /\ Len(s) >= Len(suffix)
    /\ SubSeq(s, Len(s) - Len(suffix) + 1, Len(s)) = suffix

RECURSIVE SortedInsert(_, _)
SortedInsert(s, x) ==
    IF s = <<>> THEN <<x>>
    ELSE IF x <= Head(s) THEN <<x>> \o s
    ELSE <<Head(s)>> \o SortedInsert(Tail(s), x)

RECURSIVE Sorted(_)
Sorted(s) == IF s = <<>> THEN <<>> ELSE SortedInsert(Sorted(Tail(s)), Head(s))

\* DataFrame.median(axis=1) of one row: the middle value, or the mean of the
\* two middle values; not-a-number when no column is selected
Median(values) ==
    LET s == Sorted(values)
        n == Len(s)
    IN  IF n = 0 THEN NaN
        ELSE IF n % 2 = 1 THEN Fin(s[(n + 1) \div 2])
        ELSE Fin((s[n \div 2] + s[n \div 2 + 1]) \div 2)

RECURSIVE Minimum(_)
Minimum(s) ==
    IF Len(s) = 1 THEN s[1]
    ELSE LET m == Minimum(Tail(s)) IN IF Head(s) <= m THEN Head(s) ELSE m

RECURSIVE Distinct(_)
\* the columns df[p + '_F'] left by the assignments of the loop: one per name
Distinct(s) ==
    IF s = <<>> THEN <<>>
    ELSE LET r == Distinct(SubSeq(s, 1, Len(s) - 1))
         IN  IF \E i \in DOMAIN r : r[i] = s[Len(s)] THEN r ELSE Append(r, s[Len(s)])

(* ------------------------------------------------------------------ *)
(* median_profile                                                      *)
(* ------------------------------------------------------------------ *)
\* window - (window * overlap) / 100, in units of 1e-3 mm
FinalResolution(window, overlap) == 100 * window - window * overlap

\* one invocation of loewe2012.calc, as the estimator sees it
EstCall(window, overlap, force, profile, nlayers) ==
    [window |-> window, overlap |-> overlap, force |-> force,
     profile |-> profile, nlayers |-> nlayers]

\* the columns that df.columns.str.endswith('pnt' + tail) selects among the
\* columns p + tail of the profiles
SelectedColumns(names, tail) ==
    SelectSeq(names, LAMBDA p : EndsWith(p \o tail, <<"p", "n", "t">> \o tail))

\* median_profile; nwindows is the number of rows loewe2012.calc returns
\* for a cropped profile, diverr the exception of int(x / 0.0)
MedianProfile(list_of_filenames, window, overlap, nwindows, diverr) ==
    IF list_of_filenames = <<>>
    THEN [err |-> "ValueError", rows |-> <<>>, est |-> <<>>]
    ELSE
    LET shortest_length ==
            Minimum([i \in DOMAIN list_of_filenames |->
                        DetectGround(list_of_filenames[i])
                        - DetectSurface(list_of_filenames[i])])
        depth_step == DepthStep(list_of_filenames[1])
        final_resolution == FinalResolution(window, overlap)
        nlayers == TruncDiv(shortest_length, depth_step)
    IN  IF final_resolution = 0
        THEN [err |-> diverr, rows |-> <<>>, est |-> <<>>]
        ELSE
        LET final_nlayers == TruncDiv(100 * shortest_length, final_resolution)
            \* np.arange of a negative count is empty
            nrows == IF final_nlayers > 0 THEN final_nlayers ELSE 0
            calls == [i \in DOMAIN list_of_filenames |->
                        EstCall(window, overlap, <<>>, list_of_filenames[i], nlayers)]
        IN  IF nrows > 0 /\ nwindows # nrows
            THEN \* df[p + '_F'] = values of another length
                 [err |-> "ValueError", rows |-> <<>>, est |-> <<calls[1]>>]
            ELSE
            \* a frame without rows takes the index of the first column
            \* assigned to it: nwindows rows, their distance not-a-number
            LET columns == Distinct(list_of_filenames)
                colsF == SelectedColumns(columns, <<"_", "F">>)
                colsL == SelectedColumns(columns, <<"_", "L">>)
            IN  [err |-> "none",
                 rows |-> [i \in 1..nwindows |->
                    [distance |-> IF nrows > 0 THEN Fin((i - 1) * final_resolution)
                                  ELSE NaN,
                     force_median |->
                        Median([j \in DOMAIN colsF |->
                            ProfileEstimate(colsF[j], nwindows)[i].force_median.v]),
                     L2012_L |->
                        Median([j \in DOMAIN colsL |->
                            ProfileEstimate(colsL[j], nwindows)[i].L2012_L.v])]],
                 est |-> calls]

(* ------------------------------------------------------------------ *)
(* calc                                                                *)
(* ------------------------------------------------------------------ *)
\* the window and overlap in use after the if/elif chain of calc
ResolveWindow(coeff_model, window, overlap) ==
    IF coeff_model.kind = "name" /\ coeff_model.name = "C2020"
    THEN [window |-> 10, overlap |-> 50]
    ELSE IF coeff_model.kind = "name" /\ coeff_model.name = "K2020a"
    THEN [window |-> 50, overlap |-> 50]
    ELSE IF coeff_model.kind = "name" /\ coeff_model.name = "K2020b"
    THEN [window |-> 50, overlap |-> 50]
    ELSE [window |-> window, overlap |-> overlap]

\* the filtering of the single-series path: the force column after it; it
\* is applied in place, so the caller's samples hold the same column
FilterForce(force) == Interpolate(MaskNegative(force))

\* the loop over the rows of sn
StepRows(sn, coeff_model) ==
    LET steps == [i \in DOMAIN sn |->
                    CalcStep(sn[i].force_median, sn[i].L2012_L, coeff_model)]
        bad == {i \in DOMAIN sn : steps[i].err # "none"}
    IN  IF bad = {}
        THEN [err |-> "none",
              warned |-> \E i \in DOMAIN sn : steps[i].warned,
              result |-> [i \in DOMAIN sn |->
                            [distance |-> sn[i].distance,
                             density |-> steps[i].density,
                             ssa |-> steps[i].ssa]],
              ndensity |-> Len(sn)]
        ELSE LET first == CHOOSE i \in bad : \A j \in bad : i <= j
             IN  [err |-> steps[first].err,
                  warned |-> \E i \in 1..(first - 1) : steps[i].warned,
                  result |-> <<>>,
                  ndensity |-> (first - 1) + steps[first].ndensity]

\* calc; c is the invocation: its arguments and the collaborators' answers
Calc(c, diverr) ==
    LET w == ResolveWindow(c.coeff_model, c.window, c.overlap)
    IN  IF c.is_list
        THEN LET sn == MedianProfile(c.filenames, w.window, w.overlap,
                                     c.nwindows, diverr)
             IN  IF sn.err # "none"
                 THEN [err |-> sn.err, warned |-> FALSE, result |-> <<>>,
                       ndensity |-> 0, samples |-> c.force, est |-> sn.est]
                 ELSE StepRows(sn.rows, c.coeff_model)
                      @@ [samples |-> c.force, est |-> sn.est]
        ELSE LET filtered == FilterForce(c.force)
                 sn == SeriesEstimate(c.estimate, w.window, w.overlap)
             IN  StepRows(sn, c.coeff_model)
                 @@ [samples |-> filtered,
                     est |-> <<EstCall(w.window, w.overlap, filtered, <<>>, 0)>>]

(* ------------------------------------------------------------------ *)
(* Invocations                                                         *)
(* ------------------------------------------------------------------ *)
MaxSamples == 3
MaxWindows == 2
MaxProfiles == 3

SeqsUpTo(S, n) == UNION {[1..k -> S] : k \in 0..n}

Forces == {Fin(-10), Fin(0), Fin(5), Fin(10), Fin(20), Fin(500)}
Lengths == {Fin(-2), Fin(0), Fin(2), Fin(10)}

\* density coefficients of custom bundles
CustomDensities ==
    {FinSeq(<<30000, 5000, 4000, -8000>>), FinSeq(<<30000, 0, -4000, 0>>)}

FullBundles ==
    [density : CustomDensities, ssa : {P2015.ssa},
     equation : {"ssa", "l_ex", "other"}]

\* custom bundles lacking one of the fields
PartialBundles ==
    {[ssa |-> P2015.ssa, equation |-> "l_ex"],
     [density |-> P2015.density, ssa |-> P2015.ssa]}
    \cup {[density |-> P2015.density, equation |-> e] : e \in {"ssa", "l_ex", "other"}}

NamedModels == {Name("P2015"), Name("C2020"), Name("K2020a"), Name("K2020b")}

CoeffModels ==
    {None, Name("X2021")} \cup NamedModels
    \cup {Bundle(b) : b \in FullBundles \cup PartialBundles}

\* coefficient models of the calc invocations
SeriesCoeffModels ==
    {None, Name("C2020"), Name("K2020a"), Name("K2020b")}
    \cup {Bundle(b) : b \in PartialBundles}
    \cup {Bundle([density |-> P2015.density, ssa |-> P2015.ssa, equation |-> "other"])}

ListCoeffModels ==
    {None, Name("C2020"), Name("K2020b"),
     Bundle([ssa |-> P2015.ssa, equation |-> "l_ex"]),
     Bundle([density |-> P2015.density, ssa |-> P2015.ssa, equation |-> "other"])}

\* window/overlap as the call binds them: the defaults when not passed
WindowArgs ==
    {[explicit |-> FALSE, window |-> DEFAULT_WINDOW, overlap |-> DEFAULT_WINDOW_OVERLAP]}
    \cup {[explicit |-> TRUE, window |-> 10, overlap |-> 50],
          [explicit |-> TRUE, window |-> 25, overlap |-> 0],
          [explicit |-> TRUE, window |-> 50, overlap |-> 50]}

ListWindowArgs ==
    {[explicit |-> FALSE, window |-> DEFAULT_WINDOW, overlap |-> DEFAULT_WINDOW_OVERLAP]}
    \cup [explicit : {TRUE}, window : {10, 25, 50}, overlap : {0, 50, 100, 150}]

SampleForces == {Fin(-60), Fin(60), Fin(120)}

\* window statistics the estimator may return for a series
EstimateRows ==
    {[force_median |-> Fin(10), L2012_L |-> Fin(2)],
     [force_median |-> Fin(0), L2012_L |-> Fin(2)]}

Profiles == {ProfileA, ProfileB, ProfileC}

StepCalls ==
    [op : {"calc_step"}, median_force : Forces, element_size : Lengths,
     coeff_model : CoeffModels]

SeriesCalls ==
    {[op |-> "calc", is_list |-> FALSE, force |-> f, filenames |-> <<>>,
      coeff_model |-> cm, explicit |-> a.explicit, window |-> a.window,
      overlap |-> a.overlap, estimate |-> e, nwindows |-> 0] :
        f \in SeqsUpTo(SampleForces, MaxSamples), cm \in SeriesCoeffModels,
        a \in WindowArgs, e \in SeqsUpTo(EstimateRows, MaxWindows)}

ListCalls ==
    {[op |-> "calc", is_list |-> TRUE, force |-> <<>>, filenames |-> fs,
      coeff_model |-> cm, explicit |-> a.explicit, window |-> a.window,
      overlap |-> a.overlap, estimate |-> <<>>, nwindows |-> n] :
        fs \in SeqsUpTo(Profiles, MaxProfiles), cm \in ListCoeffModels,
        a \in ListWindowArgs, n \in 0..MaxWindows}

MedianCalls ==
    [op : {"median_profile"}, list_of_filenames : SeqsUpTo(Profiles, MaxProfiles),
     window : {10, 25, 50}, overlap : {0, 50, 100, 150}, nwindows : 0..MaxWindows]

Calls == StepCalls \cup SeriesCalls \cup ListCalls \cup MedianCalls

\* the exception of int(shortest_length / 0.0): ZeroDivisionError for a
\* Python float, OverflowError (int of inf) for a numpy float
DivErrors == {"ZeroDivisionError", "OverflowError"}

(* ------------------------------------------------------------------ *)
(* State machine: one invocation, from its call to its return          *)
(* ------------------------------------------------------------------ *)
Init ==
    /\ pc = "start"
    /\ call \in Calls
    /\ samples = (IF call.op = "calc" THEN call.force ELSE <<>>)
    /\ est = <<>>
    /\ err = "none"
    /\ warned = FALSE
    /\ result = <<>>
    /\ ndensity = 0

DoCalcStep ==
    /\ pc = "start"
    /\ call.op = "calc_step"
    /\ \E r \in {CalcStep(call.median_force, call.element_size, call.coeff_model)} :
           /\ err' = r.err
           /\ warned' = r.warned
           /\ ndensity' = r.ndensity
           /\ result' = (IF r.err = "none"
                         THEN <<[density |-> r.density, ssa |-> r.ssa]>>
                         ELSE <<>>)
    /\ pc' = "done"
    /\ UNCHANGED <<call, samples, est>>

DoCalc ==
    /\ pc = "start"
    /\ call.op = "calc"
    /\ \E diverr \in DivErrors :
         \E r \in {Calc(call, diverr)} :
             /\ err' = r.err
             /\ warned' = r.warned
             /\ ndensity' = r.ndensity
             /\ result' = r.result
             /\ samples' = r.samples
             /\ est' = r.est
    /\ pc' = "done"
    /\ UNCHANGED call

DoMedianProfile ==
    /\ pc = "start"
    /\ call.op = "median_profile"
    /\ \E diverr \in DivErrors :
         \E r \in {MedianProfile(call.list_of_filenames, call.window, call.overlap,
                                  call.nwindows, diverr)} :
             /\ err' = r.err
             /\ result' = r.rows
             /\ est' = r.est
    /\ pc' = "done"
    /\ UNCHANGED <<call, samples, warned, ndensity>>

Next == DoCalcStep \/ DoCalc \/ DoMedianProfile

Spec == Init /\ [][Next]_vars

(* ------------------------------------------------------------------ *)
(* Properties                                                          *)
(* ------------------------------------------------------------------ *)
Done(op) == pc = "done" /\ call.op = op

\* the coefficient set a coeff_model stands for is complete
WellFormed(cm) ==
    LET sel == SelectCoeffs(cm)
    IN  /\ sel.kind = "bundle"
        /\ {"density", "ssa", "equation"} \subseteq DOMAIN sel.bundle

MissingField(cm) ==
    cm.kind = "bundle" /\ ~({"density", "ssa", "equation"} \subseteq DOMAIN cm.bundle)

\* C1: in a calc that returns a table, a window and an overlap passed by the
\* caller are the ones every estimator invocation receives, whatever the
\* coefficient set is.
C1_ExplicitWindowUsed ==
    (Done("calc") /\ call.explicit /\ err = "none") =>
        \A i \in DOMAIN est :
            est[i].window = call.window /\ est[i].overlap = call.overlap

\* C2: calc_step with a bundle whose equation tag is neither 'ssa' nor 'l_ex'
\* returns without raising, has warned, gives ssa = not-a-number and gives
\* the density d0 + d1*ln(fm) + d2*ln(fm)*l + d3*l of that bundle.
C2_UnknownFamilyDensity ==
    (/\ Done("calc_step")
     /\ call.coeff_model.kind = "bundle"
     /\ {"density", "equation"} \subseteq DOMAIN call.coeff_model.bundle
     /\ call.coeff_model.bundle.equation \notin {"ssa", "l_ex"}) =>
        LET d == call.coeff_model.bundle.density
            lnfm == Log(call.median_force)
            l == call.element_size
        IN  /\ err = "none"
            /\ warned
            /\ Len(result) = 1
            /\ IsNaN(result[1].ssa)
            /\ result[1].density =
                 Add(Add(Add(Mul(d[1], Fin(1000)), Mul(Mul(d[2], lnfm), Fin(10))),
                         Mul(Mul(d[3], lnfm), l)),
                     Mul(Mul(d[4], l), Fin(100)))

C2_Witness ==
    /\ Done("calc_step")
    /\ call.coeff_model.kind = "bundle"
    /\ {"density", "equation"} \subseteq DOMAIN call.coeff_model.bundle
    /\ call.coeff_model.bundle.equation = "other"
    /\ call.median_force = Fin(20)
    /\ warned
    /\ Len(result) = 1
    /\ IsFinite(result[1].density)
    /\ IsNaN(result[1].ssa)

\* C3: calc on a sample series with a custom bundle missing a required field
\* fails with UnknownCoefficientSetError before the estimator runs, before
\* any density is computed and before the caller's samples are modified.
C3_MalformedBundleRejectedFirst ==
    (Done("calc") /\ ~call.is_list /\ MissingField(call.coeff_model)) =>
        /\ err = "UnknownCoefficientSetError"
        /\ est = <<>>
        /\ ndensity = 0
        /\ samples = call.force

\* C4: calc and median_profile with an empty list of profiles fail with
\* InsufficientProfilesError, with no other error and with no table.
C4_EmptyListInsufficientProfiles ==
    /\ (Done("median_profile") /\ call.list_of_filenames = <<>>) =>
            (err = "InsufficientProfilesError" /\ result = <<>>)
    /\ (Done("calc") /\ call.is_list /\ call.filenames = <<>>) =>
            (err = "InsufficientProfilesError" /\ result = <<>>)

\* the value linear interpolation gives position i of force between its
\* nearest non-negative neighbours lo and hi
Interpolated(force, lo, i, hi) ==
    Fin(force[lo].v + TruncDiv((force[hi].v - force[lo].v) * (i - lo), hi - lo))

\* C5: in the single-series path of calc, when the force series has a
\* non-negative sample, the force column the estimator receives has no
\* negative and no not-a-number value; non-negative samples are unchanged
\* and each negative sample between two non-negative ones is their linear
\* interpolation.
C5_FilteredForceClean ==
    (/\ Done("calc")
     /\ ~call.is_list
     /\ \E i \in DOMAIN call.force : call.force[i].v >= 0) =>
        /\ Len(est) = 1
        /\ DOMAIN est[1].force = DOMAIN call.force
        /\ \A i \in DOMAIN call.force :
            /\ IsFinite(est[1].force[i])
            /\ est[1].force[i].v >= 0
            /\ call.force[i].v >= 0 => est[1].force[i] = call.force[i]
            /\ \A lo \in 1..(i - 1), hi \in (i + 1)..Len(call.force) :
                (/\ call.force[lo].v >= 0
                 /\ call.force[hi].v >= 0
                 /\ \A j \in (lo + 1)..(hi - 1) : call.force[j].v < 0)
                    => est[1].force[i] = Interpolated(call.force, lo, i, hi)

\* the shortest span ground - surface among the profiles of a list
ShortestSpan(names) ==
    LET spans == {DetectGround(names[i]) - DetectSurface(names[i]) : i \in DOMAIN names}
    IN  CHOOSE x \in spans : \A y \in spans : x <= y

\* C6: for a non-empty list of profiles and a positive final resolution
\* window*(1 - overlap/100), the table median_profile returns has
\* floor(shortest_span / final_resolution) rows, row i (from 0) has the
\* distance i * final_resolution, and the distances increase strictly.
C6_AggregatedTableShape ==
    (/\ Done("median_profile")
     /\ err = "none"
     /\ call.list_of_filenames # <<>>
     /\ call.window * (100 - call.overlap) > 0) =>
        LET resolution == call.window * (100 - call.overlap)
        IN  /\ Len(result) =
                 (100 * ShortestSpan(call.list_of_filenames)) \div resolution
            /\ \A i \in DOMAIN result :
                 result[i].distance = Fin((i - 1) * resolution)
            /\ \A i \in DOMAIN result : \A j \in DOMAIN result :
                 i < j => result[i].distance.v < result[j].distance.v

\* C7: each row of median_profile's table holds the median over all the
\* input profiles of their median forces, and of their element lengths, at
\* that window index, whatever the profiles are called.
C7_MedianOverAllProfiles ==
    (Done("median_profile") /\ err = "none" /\ call.list_of_filenames # <<>>) =>
        LET names == call.list_of_filenames IN
        \A i \in DOMAIN result :
            /\ result[i].force_median =
                 Median([j \in DOMAIN names |->
                    ProfileEstimate(names[j], call.nwindows)[i].force_median.v])
            /\ result[i].L2012_L =
                 Median([j \in DOMAIN names |->
                    ProfileEstimate(names[j], call.nwindows)[i].L2012_L.v])

\* C8: for a median force <= 0, any element length and a complete
\* coefficient set with finite density coefficients, calc_step returns
\* without raising and its density is not-a-number.
C8_NonPositiveForceNaNDensity ==
    (/\ Done("calc_step")
     /\ call.median_force.v <= 0
     /\ WellFormed(call.coeff_model)) =>
        /\ err = "none"
        /\ Len(result) = 1
        /\ IsNaN(result[1].density)

\* C9: in median_profile the final resolution window*(1 - overlap/100) is
\* positive for window > 0 and 0 <= overlap < 100, and for overlap >= 100
\* or window <= 0 the call fails with ConfigurationError.
C9_ResolutionValidated ==
    (Done("median_profile") /\ call.list_of_filenames # <<>>) =>
        /\ (call.window > 0 /\ call.overlap >= 0 /\ call.overlap < 100) =>
                FinalResolution(call.window, call.overlap) > 0
        /\ (call.overlap >= 100 \/ call.window <= 0) =>
                err = "ConfigurationError"

IsK2020(cm) == cm.kind = "name" /\ cm.name \in {"K2020a", "K2020b"}

\* C10: for 'K2020a' and 'K2020b', calc_step returns ssa = not-a-number for
\* every input and a density that is finite for a positive force; so every
\* row of calc's table has ssa = not-a-number.
C10_K2020SsaNaN ==
    /\ (Done("calc_step") /\ IsK2020(call.coeff_model)) =>
            /\ err = "none"
            /\ Len(result) = 1
            /\ IsNaN(result[1].ssa)
            /\ call.median_force.v > 0 => IsFinite(result[1].density)
    /\ (Done("calc") /\ IsK2020(call.coeff_model) /\ err = "none") =>
            \A i \in DOMAIN result : IsNaN(result[i].ssa)

C10_Witness ==
    /\ Done("calc")
    /\ call.coeff_model = Name("K2020a")
    /\ err = "none"
    /\ Len(result) >= 1
    /\ IsFinite(result[1].density)
    /\ IsNaN(result[1].ssa)

====
